---------------------------- MODULE Spec2Model ----------------------------
(***************************************************************************)
(* A model of wordly's guess recommendation engine (wordly/solver.py):     *)
(* Solver.get_next_words, sanitize_validate_input and                      *)
(* recommend_next_words, together with the collaborators they call         *)
(* (make_guess, WordPool, the word lists).                                 *)
(*                                                                         *)
(* Words and feedback strings are sequences of one-character strings.      *)
(* Scores are fixed-point numbers with five decimals (Scale), because      *)
(* n_left ** 1.75 is not an integer.                                       *)
(***************************************************************************)
EXTENDS Integers, Sequences, FiniteSets, TLC

(***************************************************************************)
(* Bounds of the model.                                                    *)
(***************************************************************************)
\* list(pool) and random.shuffle are explored in every order up to this
\* length; longer collections in a fixed family of orders (see Orders).
MaxPermute == 3
\* the longest opening list that is tried
MaxOpening == 11
\* the largest pool of the cardinality model of the budget loop
MaxPool == 120

(***************************************************************************)
(* Program constants.                                                      *)
(***************************************************************************)
WordLen == 5
TopN == 10
PrefilterFloor == 50
SampleFloor == 10
DefaultMaxPoolSize == 5000
\* float('inf'): larger than every score the model can compute
Inf == 2147483647
\* fixed-point unit: a score s stands for s / Scale
Scale == 10 ^ 5
\* the nominal score 1 of the opening words and of the few-targets answer
One == 1 * Scale

Present == "?"
Absent == "."

UpperLetters ==
    { "A", "B", "C", "D", "E", "F", "G", "H", "I", "J", "K", "L", "M",
      "N", "O", "P", "Q", "R", "S", "T", "U", "V", "W", "X", "Y", "Z" }
LowerLetters == { "a", "c", "e", "r", "t" }

\* str.upper(), on the characters the model uses
UpperChar(c) ==
    CASE c = "a" -> "A"
      [] c = "c" -> "C"
      [] c = "e" -> "E"
      [] c = "r" -> "R"
      [] c = "t" -> "T"
      [] OTHER -> c

Upper(s) == [i \in 1..Len(s) |-> UpperChar(s[i])]

\* str.isalpha() of one character
IsAlphaChar(c) == c \in UpperLetters \cup LowerLetters

\* str.isalpha(): every character alphabetic and at least one character
IsAlpha(s) == Len(s) > 0 /\ \A i \in 1..Len(s) : IsAlphaChar(s[i])

W(a, b, c, d, e) == <<a, b, c, d, e>>

Range(s) == { s[i] : i \in 1..Len(s) }

Min(a, b) == IF a < b THEN a ELSE b
Max(a, b) == IF a > b THEN a ELSE b

Reverse(s) == [i \in 1..Len(s) |-> s[Len(s) + 1 - i]]

(***************************************************************************)
(* wordly.game.make_guess: the feedback of a guess against a target.  A    *)
(* position is the guessed letter if it matches exactly; otherwise "?"     *)
(* while occurrences of the letter are left unconsumed in the target, and  *)
(* "." beyond that.                                                        *)
(***************************************************************************)
make_guess(guess, target) ==
    LET n == Len(guess)
        exact(i) == guess[i] = target[i]
        unconsumed(c) == Cardinality({ j \in 1..n : target[j] = c /\ ~exact(j) })
        earlier(i) == Cardinality({ j \in 1..(i - 1) : guess[j] = guess[i] /\ ~exact(j) })
    IN  [i \in 1..n |->
            IF exact(i) THEN guess[i]
            ELSE IF earlier(i) < unconsumed(guess[i]) THEN Present
            ELSE Absent]

(***************************************************************************)
(* wordly.word_pool.WordPool: the narrowing operations, on a set of words. *)
(* history is a function from guessed words to their feedback.             *)
(***************************************************************************)
apply_guesses(pool, history) ==
    { w \in pool : \A g \in DOMAIN history : make_guess(g, w) = history[g] }

apply_nonmatches(pool, guess, feedback) ==
    LET absent == { guess[i] : i \in { j \in 1..Len(guess) : feedback[j] = Absent } }
    IN  { w \in pool : Range(w) \cap absent = {} }

apply_hardmode_constraints(pool, history) ==
    { w \in pool :
        \A g \in DOMAIN history : \A i \in 1..Len(g) :
            /\ (history[g][i] \in UpperLetters => w[i] = history[g][i])
            /\ (history[g][i] = Present => g[i] \in Range(w)) }

remove_all_except(pool, subset) == subset


(***************************************************************************)
(* wordly.word_list: the static dictionary (all_wordle_words, without the  *)
(* frequencies, which get_next_words never reads) and the opening list.    *)
(***************************************************************************)
CRATE == W("C", "R", "A", "T", "E")
TRACE == W("T", "R", "A", "C", "E")
REACT == W("R", "E", "A", "C", "T")
CRANE == W("C", "R", "A", "N", "E")
ERASE == W("E", "R", "A", "S", "E")
SLATE == W("S", "L", "A", "T", "E")
STALE == W("S", "T", "A", "L", "E")
LEAST == W("L", "E", "A", "S", "T")
STEAL == W("S", "T", "E", "A", "L")
TALES == W("T", "A", "L", "E", "S")
TEARS == W("T", "E", "A", "R", "S")
MOODY == W("M", "O", "O", "D", "Y")
SOARE == W("S", "O", "A", "R", "E")
ROATE == W("R", "O", "A", "T", "E")

SmallDict == <<CRATE, TRACE, REACT, CRANE, ERASE>>
MidDict == SmallDict \o <<SLATE, STALE, LEAST, STEAL, TALES, TEARS>>

\* a dictionary on which two guesses score within 0.0005 of each other
TieDict ==
    << W("J", "O", "V", "O", "E"), W("J", "O", "W", "O", "E"),
       W("J", "O", "X", "O", "E"), W("K", "O", "L", "O", "E"),
       W("K", "O", "V", "O", "E"), W("M", "O", "H", "O", "E"),
       W("M", "O", "W", "O", "E"), W("M", "O", "Z", "O", "E"),
       W("O", "Q", "V", "O", "E"), W("P", "Q", "H", "O", "E"),
       W("P", "Q", "R", "S", "T"), W("P", "Q", "V", "O", "E"),
       W("P", "Q", "X", "O", "E"), W("P", "Q", "Z", "O", "E"),
       W("Q", "O", "V", "O", "E"), W("Q", "O", "X", "O", "E"),
       W("R", "O", "L", "O", "E"), W("R", "O", "V", "O", "E"),
       W("R", "O", "Z", "O", "E"), W("S", "O", "L", "O", "E"),
       W("S", "O", "N", "O", "E"), W("S", "O", "W", "O", "E"),
       W("S", "O", "X", "O", "E"), W("T", "O", "V", "O", "E"),
       W("T", "O", "X", "O", "E"), W("V", "W", "X", "Y", "Z"),
       W("A", "B", "C", "D", "F") >>

OpeningWords == MidDict \o <<SOARE, ROATE, MOODY>>

\* the opening lists that are tried: a short one and the longest one
OpeningChoices ==
    { SubSeq(OpeningWords, 1, n) : n \in { 2, Min(MaxOpening, Len(OpeningWords)) } }

(***************************************************************************)
(* The histories a caller of get_next_words passes: empty, consistent      *)
(* with one, two, three or all words of the dictionary, and contradictory. *)
(***************************************************************************)
HistoryChoices ==
    { << >>,
      ERASE :> W(".", "R", "A", ".", "E"),
      ERASE :> W("?", "?", "A", ".", "."),
      MOODY :> W(".", ".", ".", ".", "."),
      MOODY :> W("M", ".", ".", ".", "."),
      STALE :> W(".", "?", "A", ".", "E"),
      (ERASE :> W(".", "R", "A", ".", "E")) @@ (MOODY :> W(".", ".", ".", ".", ".")) }

\* The raw guess and feedback strings a caller of recommend_next_words passes.
RawGuesses ==
    { W("e", "r", "a", "s", "e"), ERASE, MOODY,
      <<"E", "R", "A", "S">>, <<"E", "R", "A", "S", "E", "S">>,
      W("E", "R", "4", "S", "E") }
RawResults ==
    { W(".", "r", "a", ".", "e"), W(".", "R", "A", ".", "E"),
      W(".", ".", ".", ".", "."), W("?", "?", "A", ".", "."),
      <<".", "R", "A", ".">>, W(".", "R", "A", "!", "E"),
      W(".", "R", "4", ".", "E") }

\* a raw history is a dict: a list of pairs with distinct keys
RawHistories ==
    { << >> }
    \cup { << <<g, r>> >> : g \in RawGuesses, r \in RawResults }
    \cup { << <<ERASE, W(".", "R", "A", ".", "E")>>, <<g, r>> >> :
              g \in RawGuesses \ {ERASE}, r \in RawResults }

\* (max_pool_size, gt_ratio) of a Solver; gt_ratio is a fraction <<num, den>>
ConfigChoices == { <<DefaultMaxPoolSize, <<1, 1>> >>, <<30, <<1, 1>> >>, <<8, <<1, 1>> >> }

(***************************************************************************)
(* Randomness and iteration order.                                         *)
(***************************************************************************)
Perms(S) ==
    { s \in [1..Cardinality(S) -> S] : \A i, j \in 1..Cardinality(S) : s[i] = s[j] => i = j }

\* list(pool): a set has no order of its own.  Every order of a pool of at
\* most MaxPermute words; the dictionary's order and its reverse otherwise.
Orders(S, dict) ==
    IF Cardinality(S) <= MaxPermute THEN Perms(S)
    ELSE LET asc == SelectSeq(dict, LAMBDA w : w \in S)
         IN  { asc, Reverse(asc) }

\* random.shuffle(list): every permutation of a list of at most MaxPermute
\* entries; the list as it is and its reverse otherwise.
Shuffles(s) ==
    IF Len(s) <= MaxPermute THEN Perms(Range(s))
    ELSE { s, Reverse(s) }

\* random.sample(list(pool), k), for k <= len(pool): every k-subset
Samples(S, k) == { T \in SUBSET S : Cardinality(T) = k }

(***************************************************************************)
(* Scores.  n_left ** cost_exp with cost_exp = 1.75, in units of 1/Scale   *)
(* (rounded down), for n_left = 0, 1, 2, ...                               *)
(***************************************************************************)
Pow175 ==
    << 0, 100000, 336358, 683852, 1131370, 1671850, 2300195, 3012461,
       3805462, 4676537, 5623413, 6644115, 7736903, 8900222, 10132673,
       11432986, 12800000, 14232644, 15729933, 17290947, 18914832,
       20600784, 22348052, 24155927, 26023737, 27950849, 29936660,
       31980598, 34082116, 36240693 >>

CostTerm(n_left) == Pow175[n_left + 1]

\* round(x, 3)
Round3(x) == ((x + (Scale \div 2000)) \div (Scale \div 1000)) * (Scale \div 1000)

\* list.sort(key=lambda x: x[1]): a stable sort, ascending by score
RECURSIVE SortByScore(_)
SortByScore(s) ==
    IF s = << >> THEN << >>
    ELSE LET sorted == SortByScore(SubSeq(s, 1, Len(s) - 1))
             x == s[Len(s)]
             keep == Cardinality({ i \in 1..Len(sorted) : sorted[i].score <= x.score })
         IN  SubSeq(sorted, 1, keep) \o <<x>> \o SubSeq(sorted, keep + 1, Len(sorted))

(***************************************************************************)
(* The state.  WordPool objects live on a heap (object id -> set of        *)
(* words); a Python name bound to a WordPool is the id it refers to, 0     *)
(* when it is unbound.                                                     *)
(***************************************************************************)
VARIABLES
    dictionary,         \* all_wordle_words
    top_first_guesses,  \* the module-level opening list
    heap,               \* the WordPool objects
    targets,            \* self.targets
    valids,             \* self.valids
    hard_mode,          \* self.hard_mode
    max_pool_size,      \* self.max_pool_size
    gt_ratio,           \* self.gt_ratio, a fraction <<num, den>>
    caller,             \* "direct" or "facade": who called get_next_words
    raw,                \* the dict passed to recommend_next_words
    guesses,            \* the dict passed to get_next_words
    targets_subset, valids_subset, before, targets_copy,
    pool_size,
    ls,                 \* the shuffled (guess, result) pairs still to pre-filter with
    guess_pool,         \* the guesses still to evaluate, in evaluation order
    targets_pool,
    best_score,
    guess_scores,
    next_words,         \* what get_next_words returned
    result,             \* what the caller received
    outcome,            \* "none", "returned", or the exception raised
    pc,
    \* the cardinality model of the budget loop
    sz

solver == <<heap, targets, valids, hard_mode, max_pool_size, gt_ratio>>
locals == <<targets_subset, valids_subset, before, targets_copy, pool_size, ls,
            guess_pool, targets_pool, best_score, guess_scores>>
vars == <<dictionary, top_first_guesses, solver, caller, raw, guesses, locals,
          next_words, result, outcome, pc, sz>>

\* the objects still referred to by a name in refs
Collect(h, refs) == [i \in (DOMAIN h) \cap refs |-> h[i]]

\* a plain assignment: another name for the same object
AliasCopy(h, ref) == [heap |-> h, ref |-> ref]

\* copy.deepcopy(pool): a new object with the same words
DeepCopy(h, ref) ==
    LET new == CHOOSE i \in 1..(Cardinality(DOMAIN h) + 1) : i \notin DOMAIN h
    IN  [heap |-> (new :> h[ref]) @@ h, ref |-> new]

\* WordPool(): a pool holding the whole dictionary
WordPool(dict) == Range(dict)

Size(h, ref) == Cardinality(h[ref])

\* the assertions of lines 173-175 alone
PairOkGuessOnly(guess, res) ==
    /\ Len(guess) = WordLen
    /\ Len(res) = WordLen
    /\ IsAlpha(guess)

\* the assertions of lines 173-177 on one pair
PairOk(guess, res) ==
    /\ Len(guess) = WordLen
    /\ Len(res) = WordLen
    /\ IsAlpha(guess)
    /\ \A i \in 1..Len(res) : IsAlphaChar(res[i]) \/ res[i] \in { ".", "?" }

\* sanitize_validate_input: [ok |-> no assertion failed, guesses |-> guesses_upper]
sanitize_validate_input(r) ==
    LET keys == { Upper(r[i][1]) : i \in 1..Len(r) }
        last(k) == CHOOSE i \in 1..Len(r) :
                      /\ Upper(r[i][1]) = k
                      /\ \A j \in 1..Len(r) : Upper(r[j][1]) = k => j <= i
    IN  [ok |-> \A i \in 1..Len(r) : PairOk(r[i][1], r[i][2]),
         guesses |-> [k \in keys |-> Upper(r[last(k)][2])]]

\* len(self.targets.pool) <= 1
FewTargetsOne(n) == n <= 1

\* len(self.targets.pool) <= 2
FewTargets(n) == n <= 2

\* the entries of the opening answer
Scored(words) == [i \in 1..Len(words) |-> [word |-> words[i], score |-> One]]

\* next_words as it is
NoCap(list) == list

\* next_words[-10:] if there are more than 10
CapTail(list) ==
    IF Len(list) > TopN THEN SubSeq(list, Len(list) - TopN + 1, Len(list)) ELSE list

\* next_words[:10] if there are more than 10
Cap(list) == IF Len(list) > TopN THEN SubSeq(list, 1, TopN) ELSE list

\* valids_subset * targets_subset > max_pool_size
OverBudget(size, limit) == size > limit

\* len(targets_subset.pool) + len(valids_subset.pool)
PoolSizeSum(nt, nv) == nt + nv

\* len(targets_subset.pool) * len(valids_subset.pool)
PoolSize(nt, nv) == nt * nv

\* line 154: the partial score already exceeds the best
Prunes(guess_score, best) == guess_score > best

\* line 158: the completed score beats the best
Improves(guess_score, best) == guess_score < best

\* max(len(pool) // 2, 10)
SampleSize(n) == Max(n \div 2, SampleFloor)

\* len(valids_subset.pool) >= len(targets_subset.pool) * self.gt_ratio
ReduceValids(nv, nt, ratio) == nv * ratio[2] >= nt * ratio[1]

(***************************************************************************)
(* Returning from and raising in get_next_words and                        *)
(* sanitize_validate_input: the value or the exception is set, then the    *)
(* frame is left (Return).                                                 *)
(***************************************************************************)
ReturnList(list) ==
    /\ next_words' = list
    /\ pc' = "return"
    /\ UNCHANGED <<result, outcome>>

Raise(exception) ==
    /\ pc' = "return"
    /\ outcome' = exception
    /\ UNCHANGED <<next_words, result>>

UnboundLocals ==
    /\ targets_subset' = 0 /\ valids_subset' = 0 /\ before' = 0 /\ targets_copy' = 0
    /\ pool_size' = 0 /\ ls' = << >> /\ guess_pool' = << >> /\ targets_pool' = << >>
    /\ best_score' = 0 /\ guess_scores' = << >>

(***************************************************************************)
(* Solver(hard_mode, cost_exp, max_pool_size, gt_ratio)                    *)
(***************************************************************************)
NewSolver(hm, config) ==
    /\ pc = "idle"
    /\ heap' = (1 :> WordPool(dictionary)) @@ (2 :> WordPool(dictionary))
    /\ targets' = 1
    /\ valids' = 2
    /\ hard_mode' = hm
    /\ max_pool_size' = config[1]
    /\ gt_ratio' = config[2]
    /\ caller' = "direct"
    /\ raw' = << >>
    /\ guesses' = << >>
    /\ UnboundLocals
    /\ next_words' = << >> /\ result' = << >> /\ outcome' = "none"
    /\ UNCHANGED <<dictionary, top_first_guesses, pc, sz>>

(***************************************************************************)
(* s.get_next_words(history), called on the Solver directly                *)
(***************************************************************************)
GetNextWords(history) ==
    /\ pc = "idle"
    /\ targets # 0
    /\ caller = "direct"
    /\ guesses' = history
    /\ heap' = Collect(heap, {targets, valids})
    /\ UnboundLocals
    /\ next_words' = << >> /\ result' = << >> /\ outcome' = "none"
    /\ pc' = "gnw"
    /\ UNCHANGED <<dictionary, top_first_guesses, targets, valids, hard_mode,
                   max_pool_size, gt_ratio, caller, raw, sz>>

(***************************************************************************)
(* recommend_next_words(guesses, hard_mode): the call, line 182, line 184, *)
(* and lines 186-189.  No Solver exists until line 184.                    *)
(***************************************************************************)
RecommendNextWords(r, hm) ==
    /\ pc = "idle"
    /\ raw' = r
    /\ caller' = "facade"
    /\ heap' = << >> /\ targets' = 0 /\ valids' = 0
    /\ hard_mode' = hm
    /\ guesses' = << >>
    /\ UnboundLocals
    /\ next_words' = << >> /\ result' = << >> /\ outcome' = "none"
    /\ pc' = "sanitize"
    /\ UNCHANGED <<dictionary, top_first_guesses, max_pool_size, gt_ratio, sz>>

Sanitize ==
    /\ pc = "sanitize"
    /\ LET checked == sanitize_validate_input(raw)
       IN  IF checked.ok
           THEN /\ guesses' = checked.guesses
                /\ pc' = "construct"
                /\ UNCHANGED <<next_words, result, outcome>>
           ELSE /\ Raise("AssertionError")
                /\ UNCHANGED guesses
    /\ UNCHANGED <<dictionary, top_first_guesses, solver, caller, raw, locals, sz>>

Construct ==
    /\ pc = "construct"
    /\ heap' = (1 :> WordPool(dictionary)) @@ (2 :> WordPool(dictionary))
    /\ targets' = 1
    /\ valids' = 2
    /\ max_pool_size' = DefaultMaxPoolSize
    /\ gt_ratio' = <<1, 1>>
    /\ pc' = "gnw"
    /\ UNCHANGED <<dictionary, top_first_guesses, hard_mode, caller, raw, guesses,
                   locals, next_words, result, outcome, sz>>

FacadeReturn ==
    /\ pc = "cap"
    /\ result' = Cap(next_words)
    /\ outcome' = "returned"
    /\ pc' = "idle"
    /\ UNCHANGED <<dictionary, top_first_guesses, solver, caller, raw, guesses,
                   locals, next_words, sz>>

(***************************************************************************)
(* Solver.get_next_words, step by step.                                    *)
(***************************************************************************)
\* lines 51-53: the pre-baked opening words
Opening ==
    /\ pc = "gnw"
    /\ DOMAIN guesses = {}
    /\ \E shuffled \in Shuffles(top_first_guesses) :
          /\ top_first_guesses' = shuffled
          /\ ReturnList(Scored(shuffled))
    /\ UNCHANGED <<dictionary, solver, caller, raw, guesses, locals, sz>>

\* lines 56-58: narrow the canonical pools by the history
Narrow ==
    /\ pc = "gnw"
    /\ DOMAIN guesses # {}
    /\ heap' = [i \in DOMAIN heap |->
                  IF i = targets THEN apply_guesses(heap[i], guesses)
                  ELSE IF i = valids /\ hard_mode
                       THEN apply_hardmode_constraints(heap[i], guesses)
                  ELSE heap[i]]
    /\ pc' = "narrowed"
    /\ UNCHANGED <<dictionary, top_first_guesses, targets, valids, hard_mode,
                   max_pool_size, gt_ratio, caller, raw, guesses, locals,
                   next_words, result, outcome, sz>>

\* lines 64-65: at most two targets left; random.choice of an empty list
\* raises IndexError
ChooseTarget ==
    /\ pc = "narrowed"
    /\ FewTargets(Size(heap, targets))
    /\ IF heap[targets] = {}
       THEN Raise("IndexError")
       ELSE \E w \in heap[targets] : ReturnList(<<[word |-> w, score |-> One]>>)
    /\ UNCHANGED <<dictionary, top_first_guesses, solver, caller, raw, guesses,
                   locals, sz>>

\* lines 72-74: snapshot the pools
CopyPools ==
    /\ pc = "narrowed"
    /\ ~FewTargets(Size(heap, targets))
    /\ LET t == DeepCopy(heap, targets)
           v == DeepCopy(t.heap, valids)
       IN  /\ heap' = v.heap
           /\ targets_subset' = t.ref
           /\ valids_subset' = v.ref
    /\ pool_size' = PoolSize(Size(heap, targets), Size(heap, valids))
    /\ pc' = "budget"
    /\ UNCHANGED <<dictionary, top_first_guesses, targets, valids, hard_mode,
                   max_pool_size, gt_ratio, caller, raw, guesses, before,
                   targets_copy, ls, guess_pool, targets_pool, best_score,
                   guess_scores, next_words, result, outcome, sz>>

\* lines 79-82: over budget, shuffle the history's pairs
StartPrefilter ==
    /\ pc = "budget"
    /\ OverBudget(pool_size, max_pool_size)
    /\ \E order \in Perms({ <<g, guesses[g]>> : g \in DOMAIN guesses }) : ls' = order
    /\ pc' = "prefilter"
    /\ UNCHANGED <<dictionary, top_first_guesses, solver, caller, raw, guesses,
                   targets_subset, valids_subset, before, targets_copy, pool_size,
                   guess_pool, targets_pool, best_score, guess_scores,
                   next_words, result, outcome, sz>>

\* line 79, the condition false
SkipPrefilter ==
    /\ pc = "budget"
    /\ ~OverBudget(pool_size, max_pool_size)
    /\ pc' = "subsample"
    /\ UNCHANGED <<dictionary, top_first_guesses, solver, caller, raw, guesses,
                   locals, next_words, result, outcome, sz>>

\* lines 83-92: one iteration of the pre-filter loop, or its end
PrefilterStep ==
    /\ pc = "prefilter"
    /\ IF \/ ls = << >>
          \/ ~OverBudget(PoolSize(Size(heap, targets_subset), Size(heap, valids_subset)),
                         max_pool_size)
       THEN /\ pc' = "subsample"
            /\ UNCHANGED <<heap, valids_subset, before, ls>>
       ELSE LET b == DeepCopy(heap, valids_subset)
                filtered == [b.heap EXCEPT ![valids_subset] =
                                apply_nonmatches(@, Head(ls)[1], Head(ls)[2])]
                reverted == Size(filtered, valids_subset) < PrefilterFloor
                vs == IF reverted THEN b.ref ELSE valids_subset
            IN  /\ before' = b.ref
                /\ valids_subset' = vs
                /\ heap' = Collect(filtered, {targets, valids, targets_subset, vs, b.ref})
                /\ ls' = Tail(ls)
                /\ pc' = "prefilter"
    /\ UNCHANGED <<dictionary, top_first_guesses, targets, valids, hard_mode,
                   max_pool_size, gt_ratio, caller, raw, guesses, targets_subset,
                   targets_copy, pool_size, guess_pool, targets_pool, best_score,
                   guess_scores, next_words, result, outcome, sz>>

\* lines 95-108: one iteration of the subsampling loop; random.sample of
\* more words than the pool holds raises ValueError
SubsampleStep ==
    /\ pc = "subsample"
    /\ OverBudget(pool_size, max_pool_size)
    /\ LET nv == Size(heap, valids_subset)
           nt == Size(heap, targets_subset)
           ref == IF ReduceValids(nv, nt, gt_ratio) THEN valids_subset ELSE targets_subset
           k == SampleSize(Size(heap, ref))
       IN  IF k > Size(heap, ref)
           THEN /\ Raise("ValueError")
                /\ UNCHANGED <<heap, pool_size>>
           ELSE /\ \E sample \in Samples(heap[ref], k) :
                      heap' = [heap EXCEPT ![ref] = remove_all_except(@, sample)]
                /\ pool_size' = PoolSize(Size(heap', targets_subset), Size(heap', valids_subset))
                /\ UNCHANGED <<pc, next_words, result, outcome>>
    /\ UNCHANGED <<dictionary, top_first_guesses, targets, valids, hard_mode,
                   max_pool_size, gt_ratio, caller, raw, guesses, targets_subset,
                   valids_subset, before, targets_copy, ls, guess_pool,
                   targets_pool, best_score, guess_scores, sz>>

\* lines 138-141: within budget, set up the all-pairs search
StartSearch ==
    /\ pc = "subsample"
    /\ ~OverBudget(pool_size, max_pool_size)
    /\ guess_scores' = << >>
    /\ best_score' = Inf
    /\ \E gp \in Orders(heap[valids_subset], dictionary) : guess_pool' = gp
    /\ \E tp \in Orders(heap[targets_subset], dictionary) : targets_pool' = tp
    /\ pc' = "search"
    /\ UNCHANGED <<dictionary, top_first_guesses, solver, caller, raw, guesses,
                   targets_subset, valids_subset, before, targets_copy, pool_size,
                   ls, next_words, result, outcome, sz>>

\* lines 148-149: {guess: make_guess(guess, tw)} updated with the history,
\* whose entries win
NewGuesses(guess, tw, history) == history @@ (guess :> make_guess(guess, tw))

\* lines 146-157: the loop over the targets for one guess, from the i-th
\* target on; stops early once the partial score exceeds the best
RECURSIVE ScoreLoop(_, _, _, _, _, _, _, _)
ScoreLoop(h, tc, guess, i, guess_score, tpool, tsub, history) ==
    IF i > Len(tpool) THEN [heap |-> h, targets_copy |-> tc, guess_score |-> guess_score]
    ELSE LET c == DeepCopy(h, tsub)
             narrowed == [c.heap EXCEPT ![c.ref] =
                            apply_guesses(@, NewGuesses(guess, tpool[i], history))]
             n_left == Size(narrowed, c.ref)
             score == guess_score + CostTerm(n_left)
             kept == Collect(narrowed, (DOMAIN h \ {tc}) \cup {tsub, c.ref})
         IN  IF Prunes(score, best_score)
             THEN [heap |-> kept, targets_copy |-> c.ref, guess_score |-> score]
             ELSE ScoreLoop(kept, c.ref, guess, i + 1, score, tpool, tsub, history)

\* lines 143-160: evaluate the next guess of guess_pool
ScoreGuess ==
    /\ pc = "search"
    /\ guess_pool # << >>
    /\ LET guess == Head(guess_pool)
           run == ScoreLoop(heap, targets_copy, guess, 1, 0, targets_pool,
                            targets_subset, guesses)
       IN  /\ heap' = run.heap
           /\ targets_copy' = run.targets_copy
           /\ IF Improves(run.guess_score, best_score)
              THEN /\ best_score' = run.guess_score
                   /\ guess_scores' = Append(guess_scores,
                          [word |-> guess, score |-> Round3(run.guess_score)])
              ELSE UNCHANGED <<best_score, guess_scores>>
    /\ guess_pool' = Tail(guess_pool)
    /\ UNCHANGED <<dictionary, top_first_guesses, targets, valids, hard_mode,
                   max_pool_size, gt_ratio, caller, raw, guesses, targets_subset,
                   valids_subset, before, pool_size, ls, targets_pool,
                   next_words, result, outcome, pc, sz>>

\* lines 163-164: sort and return
SortReturn ==
    /\ pc = "search"
    /\ guess_pool = << >>
    /\ ReturnList(SortByScore(guess_scores))
    /\ UNCHANGED <<dictionary, top_first_guesses, solver, caller, raw, guesses,
                   locals, sz>>

\* the frame of get_next_words (or of sanitize_validate_input) is left: its
\* locals are gone; an exception propagates to the caller of the facade
Return ==
    /\ pc = "return"
    /\ UnboundLocals
    /\ heap' = Collect(heap, {targets, valids})
    /\ IF outcome # "none"
       THEN pc' = "idle" /\ UNCHANGED <<result, outcome>>
       ELSE IF caller = "facade"
            THEN pc' = "cap" /\ UNCHANGED <<result, outcome>>
            ELSE pc' = "idle" /\ result' = next_words /\ outcome' = "returned"
    /\ UNCHANGED <<dictionary, top_first_guesses, targets, valids, hard_mode,
                   max_pool_size, gt_ratio, caller, raw, guesses, next_words, sz>>

(***************************************************************************)
(* The budget loop on cardinalities: lines 72-108 read only the sizes of   *)
(* the pools, so sz keeps len(pool) for each pool and the number of        *)
(* history pairs left in ls.  apply_nonmatches leaves any number of words  *)
(* up to the number it found.  The targets are words of the valids pool:   *)
(* both start as the dictionary, and a word consistent with the history    *)
(* satisfies the hard-mode constraints.                                    *)
(***************************************************************************)
SizeChoices == { 3, 9, 10, 12, 25, 50, 60, 80, MaxPool }
SizeConfigs ==
    { <<DefaultMaxPoolSize, <<1, 1>> >>, <<100, <<1, 1>> >>,
      <<50, <<3, 1>> >>, <<20, <<1, 3>> >> }

SzStates ==
    { [pc |-> "budget", valids |-> nv, targets |-> nt,
       valids_subset |-> nv, targets_subset |-> nt, pool_size |-> PoolSize(nt, nv),
       max_pool_size |-> c[1], gt_ratio |-> c[2], ls |-> n, outcome |-> "none"] :
      <<nv, nt>> \in { p \in SizeChoices \X SizeChoices : p[2] > 2 /\ p[2] <= p[1] },
      c \in SizeConfigs, n \in 1..2 }

SzIdle ==
    [pc |-> "idle", valids |-> 0, targets |-> 0, valids_subset |-> 0,
     targets_subset |-> 0, pool_size |-> 0, max_pool_size |-> 0,
     gt_ratio |-> <<1, 1>>, ls |-> 0, outcome |-> "none"]

wvars == <<dictionary, top_first_guesses, solver, caller, raw, guesses, locals,
           next_words, result, outcome, pc>>

\* lines 79-82
SzStartPrefilter ==
    /\ sz.pc = "budget"
    /\ OverBudget(sz.pool_size, sz.max_pool_size)
    /\ sz' = [sz EXCEPT !.pc = "prefilter"]
    /\ UNCHANGED wvars

\* line 79, the condition false
SzSkipPrefilter ==
    /\ sz.pc = "budget"
    /\ ~OverBudget(sz.pool_size, sz.max_pool_size)
    /\ sz' = [sz EXCEPT !.pc = "subsample"]
    /\ UNCHANGED wvars

\* lines 83-92
SzPrefilterStep ==
    /\ sz.pc = "prefilter"
    /\ IF \/ sz.ls = 0
          \/ ~OverBudget(PoolSize(sz.targets_subset, sz.valids_subset), sz.max_pool_size)
       THEN sz' = [sz EXCEPT !.pc = "subsample"]
       ELSE \E n \in 0..sz.valids_subset :
               sz' = [sz EXCEPT !.valids_subset = IF n < PrefilterFloor THEN @ ELSE n,
                                !.ls = @ - 1]
    /\ UNCHANGED wvars

\* lines 95-108
SzSubsampleStep ==
    /\ sz.pc = "subsample"
    /\ OverBudget(sz.pool_size, sz.max_pool_size)
    /\ LET valids_side == ReduceValids(sz.valids_subset, sz.targets_subset, sz.gt_ratio)
           n == IF valids_side THEN sz.valids_subset ELSE sz.targets_subset
           k == SampleSize(n)
       IN  IF k > n
           THEN sz' = [sz EXCEPT !.pc = "raised", !.outcome = "ValueError"]
           ELSE LET nv == IF valids_side THEN k ELSE sz.valids_subset
                    nt == IF valids_side THEN sz.targets_subset ELSE k
                IN  sz' = [sz EXCEPT !.valids_subset = nv, !.targets_subset = nt,
                                     !.pool_size = PoolSize(nt, nv)]
    /\ UNCHANGED wvars

\* lines 138-141
SzStartSearch ==
    /\ sz.pc = "subsample"
    /\ ~OverBudget(sz.pool_size, sz.max_pool_size)
    /\ sz' = [sz EXCEPT !.pc = "search"]
    /\ UNCHANGED wvars

(***************************************************************************)
(* Specifications.                                                         *)
(***************************************************************************)
NoCall ==
    /\ heap = << >> /\ targets = 0 /\ valids = 0
    /\ hard_mode = FALSE /\ max_pool_size = DefaultMaxPoolSize /\ gt_ratio = <<1, 1>>
    /\ caller = "direct" /\ raw = << >> /\ guesses = << >>
    /\ targets_subset = 0 /\ valids_subset = 0 /\ before = 0 /\ targets_copy = 0
    /\ pool_size = 0 /\ ls = << >> /\ guess_pool = << >> /\ targets_pool = << >>
    /\ best_score = 0 /\ guess_scores = << >>
    /\ next_words = << >> /\ result = << >> /\ outcome = "none"
    /\ pc = "idle"

Init ==
    /\ dictionary \in { SmallDict, MidDict }
    /\ top_first_guesses \in OpeningChoices
    /\ NoCall
    /\ sz = SzIdle

Next ==
    \/ \E hm \in BOOLEAN, c \in ConfigChoices : NewSolver(hm, c)
    \/ \E h \in HistoryChoices : GetNextWords(h)
    \/ \E r \in RawHistories, hm \in BOOLEAN : RecommendNextWords(r, hm)
    \/ Sanitize
    \/ Construct
    \/ FacadeReturn
    \/ Opening
    \/ Narrow
    \/ ChooseTarget
    \/ CopyPools
    \/ StartPrefilter
    \/ SkipPrefilter
    \/ PrefilterStep
    \/ SubsampleStep
    \/ StartSearch
    \/ ScoreGuess
    \/ SortReturn
    \/ Return

Spec == Init /\ [][Next]_vars

\* one call of get_next_words on the dictionary with the near-tie
TieInit ==
    /\ dictionary = TieDict
    /\ top_first_guesses = SubSeq(OpeningWords, 1, 2)
    /\ NoCall
    /\ sz = SzIdle

TieNext ==
    \/ \E hm \in BOOLEAN : NewSolver(hm, <<DefaultMaxPoolSize, <<1, 1>> >>)
    \/ /\ outcome = "none"
       /\ GetNextWords(W("A", "B", "C", "D", "F") :> W(".", ".", ".", ".", "."))
    \/ Narrow
    \/ CopyPools
    \/ SkipPrefilter
    \/ StartSearch
    \/ ScoreGuess
    \/ SortReturn
    \/ Return

TieSpec == TieInit /\ [][TieNext]_vars

SzInit ==
    /\ dictionary = SmallDict
    /\ top_first_guesses = << >>
    /\ NoCall
    /\ sz \in SzStates

SzNext ==
    \/ SzStartPrefilter
    \/ SzSkipPrefilter
    \/ SzPrefilterStep
    \/ SzSubsampleStep
    \/ SzStartSearch

\* the program is sequential: a step that can be taken is taken
SizeSpec == SzInit /\ [][SzNext]_vars /\ WF_vars(SzNext)

(***************************************************************************)
(* Properties of the budget loop (SizeSpec).                               *)
(***************************************************************************)

\* C1: whenever the all-pairs search begins, the two bounded pools satisfy
\* len(valids_subset) * len(targets_subset) <= max_pool_size, whatever
\* max_pool_size, gt_ratio and the history are.
C1_SearchWithinBudget ==
    sz.pc = "search" => sz.valids_subset * sz.targets_subset <= sz.max_pool_size

\* the search begins after both pools were subsampled
C1_Witness ==
    /\ sz.pc = "search"
    /\ sz.valids_subset < sz.valids
    /\ sz.targets_subset < sz.targets

\* the pool the next iteration of the subsampling loop samples
SampledPool ==
    IF ReduceValids(sz.valids_subset, sz.targets_subset, sz.gt_ratio)
    THEN sz.valids_subset
    ELSE sz.targets_subset

\* C7: for every configuration the subsampling loop ends without an error,
\* also when a pool to be sampled holds fewer than 10 words: no iteration
\* raises, and every iteration leaves fewer words in the pool it samples
\* (the sizes decide the next iteration, so an iteration that changes
\* nothing repeats forever).
C7_SubsamplingTerminates ==
    /\ sz.outcome # "ValueError"
    /\ (sz.pc = "subsample" /\ sz.pool_size > sz.max_pool_size)
       => SampleSize(SampledPool) < SampledPool

\* the same as a behaviour: once the loop is reached, the search starts
SubsamplingReachesSearch == (sz.pc = "subsample") ~> (sz.pc = "search")

\* C8: when the pools are within the budget after the pre-filter, no
\* subsampling is done: the search starts on the pools as they are.
C8_NoSubsamplingWithinBudget ==
    [][(/\ sz.pc = "subsample"
        /\ sz.valids_subset * sz.targets_subset <= sz.max_pool_size)
       => (/\ sz'.pc = "search"
           /\ sz'.valids_subset = sz.valids_subset
           /\ sz'.targets_subset = sz.targets_subset)]_vars

(***************************************************************************)
(* Properties of the calls (Spec).                                         *)
(***************************************************************************)

\* C2: with a non-empty history that no word of the targets pool is
\* consistent with, get_next_words does not raise: it returns a list.
C2_ContradictoryHistoryReturns ==
    (/\ pc = "return"
     /\ targets # 0
     /\ DOMAIN guesses # {}
     /\ heap[targets] = {})
    => outcome = "none"

\* C3: with a non-empty history that leaves one or two candidate targets,
\* get_next_words returns exactly one entry (w, 1) with w one of the
\* remaining targets, in easy and in hard mode, and runs no scoring search.
C3_FewTargetsOneEntry ==
    (/\ pc = "return"
     /\ outcome = "none"
     /\ DOMAIN guesses # {}
     /\ Size(heap, targets) \in { 1, 2 })
    => /\ Len(next_words) = 1
       /\ next_words[1].score = One
       /\ next_words[1].word \in heap[targets]
       /\ targets_subset = 0 /\ valids_subset = 0 /\ targets_copy = 0
       /\ guess_pool = << >> /\ targets_pool = << >>
       /\ best_score = 0 /\ guess_scores = << >>

\* a hard-mode call returns with two candidate targets left
C3_Witness ==
    /\ pc = "return"
    /\ outcome = "none"
    /\ DOMAIN guesses # {}
    /\ Size(heap, targets) = 2
    /\ hard_mode
    /\ Len(next_words) = 1

\* recommend_next_words has returned for an empty history
OpeningAnswered ==
    /\ caller = "facade"
    /\ pc = "idle"
    /\ outcome = "returned"
    /\ raw = << >>

\* C4 as stated: with an empty history recommend_next_words returns, as a
\* set, exactly the pre-computed opening words, each with score 1, whatever
\* the size of that set and whatever calls were made before.
C4_OpeningSetReturned ==
    OpeningAnswered
    => /\ { result[i].word : i \in 1..Len(result) } = Range(top_first_guesses)
       /\ \A i \in 1..Len(result) : result[i].score = One

\* C4, amended: with an empty history recommend_next_words returns
\* min(10, n) distinct words of the n pre-computed opening words, each with
\* score 1; they are all the opening words when n <= 10.
C4_OpeningWordsCapped ==
    OpeningAnswered
    => /\ Len(result) = Min(TopN, Len(top_first_guesses))
       /\ \A i \in 1..Len(result) :
             /\ result[i].score = One
             /\ result[i].word \in Range(top_first_guesses)
       /\ \A i, j \in 1..Len(result) : result[i].word = result[j].word => i = j
       /\ Len(top_first_guesses) <= TopN
             => { result[i].word : i \in 1..Len(result) } = Range(top_first_guesses)

\* the opening list holds more than 10 words and the answer was cut
C4_Witness ==
    /\ OpeningAnswered
    /\ Len(top_first_guesses) > TopN
    /\ Len(result) = TopN

\* C5: recommend_next_words returns at most 10 entries, in ascending order
\* of score: the first min(10, n) entries of the n-entry list of
\* get_next_words, so no entry left out scores lower than an entry kept.
C5_TopTenAscending ==
    (caller = "facade" /\ pc = "idle" /\ outcome = "returned")
    => /\ Len(result) <= TopN
       /\ result = SubSeq(next_words, 1, Min(TopN, Len(next_words)))
       /\ \A i, j \in 1..Len(result) : i < j => result[i].score <= result[j].score
       /\ \A i \in 1..Len(result), j \in (Len(result) + 1)..Len(next_words) :
             result[i].score <= next_words[j].score

\* an answer of more than 10 entries was cut
C5_Witness ==
    /\ caller = "facade" /\ pc = "idle" /\ outcome = "returned"
    /\ Len(next_words) > TopN
    /\ Len(result) = TopN

\* a guess or a feedback of the wrong length, a guess with a character that
\* is not a letter, a feedback with a character that is neither a letter
\* nor "." nor "?"
Malformed(guess, res) ==
    \/ Len(guess) # WordLen
    \/ Len(res) # WordLen
    \/ \E i \in 1..Len(guess) : guess[i] \notin UpperLetters \cup LowerLetters
    \/ \E i \in 1..Len(res) : res[i] \notin UpperLetters \cup LowerLetters \cup { ".", "?" }

C9_CanonicalPoolsOnlyNarrowed ==
    [][(/\ targets # 0
        /\ targets' # 0
        /\ ~(pc = "idle" /\ pc' = "idle"))
       => (/\ targets' = targets
           /\ valids' = valids
           /\ heap'[targets] \subseteq heap[targets]
           /\ heap'[valids] \subseteq heap[valids]
           /\ pc # "gnw" => (heap'[targets] = heap[targets] /\ heap'[valids] = heap[valids])
           /\ ~hard_mode => heap'[valids] = Range(dictionary)
           /\ pc # "idle" => guesses' = guesses)]_vars

\* the search runs on a subsampled pool and a narrowed copy while the
\* canonical pools hold more words
C9_Witness ==
    /\ pc = "search"
    /\ targets_copy # 0
    /\ heap[targets_copy] # heap[targets]
    /\ heap[valids_subset] # heap[valids]
    /\ heap[targets_subset] = heap[targets]

(***************************************************************************)
(* Properties of the scoring search (TieSpec).                             *)
(***************************************************************************)
\* the sum of n_left ** cost_exp of a guess over the first k bounded targets
RECURSIVE PartialScore(_, _)
PartialScore(guess, k) ==
    IF k = 0 THEN 0
    ELSE PartialScore(guess, k - 1)
         + CostTerm(Cardinality(apply_guesses(heap[targets_subset],
                                              NewGuesses(guess, targets_pool[k], guesses))))

\* the complete score of a guess: the sum over all bounded targets
CompleteScore(guess) == PartialScore(guess, Len(targets_pool))

\* the evaluation of the guess is aborted early: from the k-th target on,
\* with the sum so far, some partial sum exceeds the best score
RECURSIVE AbortedFrom(_, _, _)
AbortedFrom(guess, k, sum) ==
    /\ k <= Len(targets_pool)
    /\ LET next == sum + CostTerm(Cardinality(apply_guesses(heap[targets_subset],
                              NewGuesses(guess, targets_pool[k], guesses))))
       IN  next > best_score \/ AbortedFrom(guess, k + 1, next)

Aborted(guess) == AbortedFrom(guess, 1, 0)

\* the least complete score over the bounded guess pool
MinCompleteScore ==
    LET scores == { CompleteScore(g) : g \in heap[valids_subset] }
    IN  CHOOSE m \in scores : \A x \in scores : m <= x

\* get_next_words returns from the scoring search on a non-empty guess pool
SearchAnswered ==
    /\ pc = "return"
    /\ outcome = "none"
    /\ valids_subset # 0
    /\ heap[valids_subset] # {}

\* C10: in the general case with a non-empty bounded guess pool,
\* the answer is non-empty, its entries were retained with strictly
\* decreasing complete scores in evaluation order, and its first entry is
\* a guess whose complete score equals the least complete score over the
\* bounded guess pool, for every evaluation order.
C10_FirstEntryHasLeastScore ==
    SearchAnswered
    => /\ next_words # << >>
       /\ \A i, j \in 1..Len(guess_scores) :
             i < j => CompleteScore(guess_scores[i].word)
                         > CompleteScore(guess_scores[j].word)
       /\ CompleteScore(next_words[1].word) = MinCompleteScore

\* What the search does guarantee: the answer is non-empty; the guess
\* retained last has the least complete score, which is the best score of
\* the search; the retained guesses have strictly decreasing complete
\* scores in evaluation order; the first entry is a guess whose complete
\* score rounded to three decimals, the score it is returned with, equals
\* the least complete score rounded to three decimals; a guess whose
\* evaluation is aborted early has a complete score greater than the least.
PruningKeepsLeastScore ==
    /\ SearchAnswered
       => /\ next_words # << >>
          /\ best_score = MinCompleteScore
          /\ CompleteScore(guess_scores[Len(guess_scores)].word) = MinCompleteScore
          /\ \A i, j \in 1..Len(guess_scores) :
                i < j => CompleteScore(guess_scores[i].word)
                            > CompleteScore(guess_scores[j].word)
          /\ next_words[1].score = Round3(MinCompleteScore)
          /\ Round3(CompleteScore(next_words[1].word)) = Round3(MinCompleteScore)
    /\ (pc = "search" /\ guess_pool # << >> /\ Aborted(Head(guess_pool)))
       => CompleteScore(Head(guess_pool)) > MinCompleteScore

\* the first two entries are returned with the same rounded score and the
\* first is not the guess with the least complete score
RoundingTie ==
    /\ SearchAnswered
    /\ Len(next_words) >= 2
    /\ next_words[1].score = next_words[2].score
    /\ CompleteScore(next_words[1].word) > MinCompleteScore

=============================================================================
